---------------------------- MODULE Spec2Model ----------------------------
(***************************************************************************)
(* Model of pgml-dashboard/src/api/cms.rs: the lazily constructed Gitbook  *)
(* collections (BLOG, CAREERS, DOCS), Collection::new, get_asset,          *)
(* get_content and render, with the front-matter splitter that render      *)
(* runs inline.                                                            *)
(*                                                                         *)
(* Text is a sequence of chunks.  A chunk is a piece of text that holds no *)
(* '-' character, or the chunk "---" itself; the text a sequence stands    *)
(* for is the concatenation of its chunks.  On such text str::split("---") *)
(* cuts exactly at the "---" chunks.  A path string is a sequence of       *)
(* fragments in the same way, "/" being a fragment of its own.             *)
(***************************************************************************)
EXTENDS Integers, Sequences, FiniteSets, TLC

VARIABLES
    disk,       \* the file system: file (sequence of path components) -> content
    lazy,       \* the lazy_static cells BLOG, CAREERS, DOCS
    built,      \* per collection: how often Collection::new ran, and in which request
    inflight,   \* requests suspended at their .await (file read / file open)
    response,   \* the last completed request with its outcome
    fm          \* the front-matter splitter applied to one file content

vars == <<disk, lazy, built, inflight, response, fm>>

(***************************************************************************)
(* Bounds of the model.                                                    *)
(***************************************************************************)
MaxLen == 5         \* chunks in a file content handed to the splitter
MaxInFlight == 2    \* requests suspended at an .await at the same time

(***************************************************************************)
(* Option<T>: None is the empty sequence, Some(v) the one-element one.     *)
(***************************************************************************)
None == <<>>
Some(v) == <<v>>

(***************************************************************************)
(* Sequence helpers.                                                       *)
(***************************************************************************)
Last(s) == s[Len(s)]
Front(s) == SubSeq(s, 1, Len(s) - 1)

RECURSIVE Concat(_)
Concat(ss) == IF ss = <<>> THEN <<>> ELSE Head(ss) \o Concat(Tail(ss))

(***************************************************************************)
(* str::split("---") and [&str]::join("---") on chunked text.              *)
(***************************************************************************)
Delim == "---"

\* contents.split("---").collect::<Vec<&str>>(): always at least one part
RECURSIVE StrSplit(_, _)
StrSplit(text, cur) ==
    IF text = <<>> THEN <<cur>>
    ELSE IF Head(text) = Delim THEN <<cur>> \o StrSplit(Tail(text), <<>>)
    ELSE StrSplit(Tail(text), Append(cur, Head(text)))

\* parts.join("---")
RECURSIVE StrJoin(_)
StrJoin(parts) ==
    IF parts = <<>> THEN <<>>
    ELSE IF Len(parts) = 1 THEN parts[1]
    ELSE parts[1] \o <<Delim>> \o StrJoin(Tail(parts))

(***************************************************************************)
(* The chunks of file contents, and what each is to the YAML loader.       *)
(***************************************************************************)
LineText == "Some text\n"
LineDescription == "description: d\n"
LineImage == "image: i\n"
LineDescriptionInt == "description: 5\n"
LineYamlError == "a: b: c\n"
LineBlank == "\n"
LineTitle == "# Title\n"
InlineSomeText == "Some text "
InlineWithADash == " with a dash "
InlineInIt == " in it"
InlineDescriptionA == "description: a "

\* a chunk that ends its line
EndsLine(chunk) ==
    chunk \notin {Delim, InlineSomeText, InlineWithADash, InlineInIt, InlineDescriptionA}

\* the lines of a text
RECURSIVE TextLines(_, _)
TextLines(text, cur) ==
    IF text = <<>> THEN (IF cur = <<>> THEN <<>> ELSE <<cur>>)
    ELSE IF EndsLine(Head(text))
         THEN <<Append(cur, Head(text))>> \o TextLines(Tail(text), <<>>)
    ELSE TextLines(Tail(text), Append(cur, Head(text)))

\* a chunk without its line end
Chomp(chunk) ==
    CASE chunk = LineText -> "Some text"
      [] chunk = LineDescription -> "description: d"
      [] chunk = LineImage -> "image: i"
      [] chunk = LineDescriptionInt -> "description: 5"
      [] chunk = LineYamlError -> "a: b: c"
      [] chunk = LineBlank -> ""
      [] chunk = LineTitle -> "# Title"
      [] OTHER -> chunk

\* a text without the blanks it starts with
TrimStart(t) ==
    CASE t = " with a dash " -> "with a dash "
      [] t = " with a dash" -> "with a dash"
      [] t = " in it" -> "in it"
      [] OTHER -> t

\* a text without the blanks it ends with
TrimEnd(t) ==
    CASE t = "Some text " -> "Some text"
      [] t = " with a dash " -> " with a dash"
      [] t = "description: a " -> "description: a"
      [] t = "a " -> "a"
      [] OTHER -> t

RECURSIVE RawText(_)
RawText(chunks) ==
    IF chunks = <<>> THEN "" ELSE Chomp(Head(chunks)) \o RawText(Tail(chunks))

\* the text of a part of a line that runs to the line's end, as a plain
\* scalar keeps it: blanks inside stay, blanks at the end go
TextToLineEnd(chunks) ==
    IF chunks = <<>> THEN ""
    ELSE RawText(Front(chunks)) \o TrimEnd(Chomp(Last(chunks)))

\* the text of a whole line as a plain scalar keeps it
PlainText(chunks) ==
    IF Len(chunks) = 1 THEN TrimStart(TrimEnd(Chomp(chunks[1])))
    ELSE TrimStart(Chomp(Head(chunks))) \o TextToLineEnd(Tail(chunks))

\* the line ends in a comment: a '#' at the start of the line or after a blank
YamlComment(line) ==
    /\ Last(line) = LineTitle
    /\ (Len(line) = 1 \/
        line[Len(line) - 1] \in {InlineSomeText, InlineWithADash, InlineDescriptionA})

\* what a line holds before its comment and its line end
YamlContent(line) ==
    IF YamlComment(line) \/ Last(line) = LineBlank THEN Front(line) ELSE line

\* the column at which the line's content starts
YamlIndent(line) ==
    IF Head(line) \in {InlineWithADash, InlineInIt} THEN 1 ELSE 0

\* the places of a line's content that hold a "key: value"
YamlEntryAt(content) ==
    {i \in 1..Len(content) :
        content[i] \in {LineDescription, LineImage, LineDescriptionInt, InlineDescriptionA}}

\* how yaml_rust reads one line of a block: blank, a comment only, one
\* "key: value" entry of a block mapping, plain-scalar text, or a scan error
\* (a second ": " on the line)
YamlLineKind(line) ==
    LET content == YamlContent(line)
    IN  IF content = <<>> THEN (IF YamlComment(line) THEN "comment" ELSE "blank")
        ELSE IF \E i \in 1..Len(content) : content[i] = LineYamlError THEN "error"
        ELSE IF YamlEntryAt(content) = {} THEN "scalar"
        ELSE IF Cardinality(YamlEntryAt(content)) = 1 THEN "entry"
        ELSE "error"

\* the key of an entry line: text before the entry on its line is part of the key
YamlEntryKey(line) ==
    IF YamlEntryAt(YamlContent(line)) # {1} THEN "other"
    ELSE IF Head(line) = LineImage THEN "image" ELSE "description"

\* what an entry chunk holds after its ": "
YamlValuePart(chunk) ==
    CASE chunk = LineDescription -> "d"
      [] chunk = LineImage -> "i"
      [] chunk = LineDescriptionInt -> "5"
      [] OTHER -> "a "

\* the Yaml value of an entry line, Yaml::Integer(..) for a number alone and
\* Yaml::String(..) else: the text after the ": " up to the end of the line
YamlEntryValue(line) ==
    LET content == YamlContent(line)
        i == CHOOSE i \in YamlEntryAt(content) : TRUE
        rest == SubSeq(content, i + 1, Len(content))
    IN  [type |-> IF content[i] = LineDescriptionInt THEN "Integer" ELSE "String",
         val |-> IF rest = <<>> THEN TrimEnd(YamlValuePart(content[i]))
                 ELSE YamlValuePart(content[i]) \o TextToLineEnd(rest)]

BadValue == [type |-> "BadValue", val |-> ""]

\* how a plain scalar folds the line breaks between two of its lines: one
\* break is a blank, and every blank line in between is a line break
RECURSIVE Fold(_)
Fold(blanks) ==
    IF blanks = 0 THEN " "
    ELSE IF blanks = 1 THEN "\n"
    ELSE "\n" \o Fold(blanks - 1)

\* nothing read yet; open: a plain scalar that the next line may continue;
\* blanks: the blank lines since the last line with content
YamlStart ==
    [mode |-> "start", indent |-> 0, open |-> FALSE, blanks |-> 0, last |-> "other",
     hash |-> [k \in {"description", "image", "other"} |-> BadValue]]

\* one more line: a root scalar runs on over plain lines at any column; a
\* block mapping takes entries at its own column, a repeated key keeping the
\* value given last, and a plain line further in continues the value before
\* it, which is then a string; a comment ends the scalar before it
YamlStep(st, line) ==
    LET kind == YamlLineKind(line)
        err == [st EXCEPT !.mode = "err"]
    IN  CASE kind = "blank" -> [st EXCEPT !.blanks = @ + 1]
          [] kind = "comment" -> [st EXCEPT !.open = FALSE]
          [] kind = "error" -> err
          [] kind = "scalar" ->
                IF st.mode = "start" \/ (st.mode = "scalar" /\ st.open)
                THEN [st EXCEPT !.mode = "scalar", !.open = ~YamlComment(line),
                                !.blanks = 0]
                ELSE IF st.mode = "mapping" /\ st.open /\ YamlIndent(line) > st.indent
                THEN [st EXCEPT !.open = ~YamlComment(line), !.blanks = 0,
                                !.hash[st.last] =
                                    [type |-> "String",
                                     val |-> st.hash[st.last].val \o Fold(st.blanks)
                                             \o PlainText(YamlContent(line))]]
                ELSE err
          [] kind = "entry" ->
                IF st.mode = "start" \/ (st.mode = "mapping" /\ YamlIndent(line) = st.indent)
                THEN [st EXCEPT !.mode = "mapping", !.indent = YamlIndent(line),
                                !.open = ~YamlComment(line), !.blanks = 0,
                                !.last = YamlEntryKey(line),
                                !.hash[YamlEntryKey(line)] = YamlEntryValue(line)]
                ELSE err

RECURSIVE YamlParse(_, _)
YamlParse(lines, st) ==
    IF lines = <<>> THEN st ELSE YamlParse(Tail(lines), YamlStep(st, Head(lines)))

\* YamlLoader::load_from_str(text): Err, Ok(vec![]) for a text of comments and
\* blank lines only, else Ok(vec![doc]) with doc a Hash or another Yaml value
YamlLoad(text) ==
    LET st == YamlParse(TextLines(text, <<>>), YamlStart)
    IN  CASE st.mode = "start" -> [res |-> "Ok", docs |-> <<>>]
          [] st.mode = "mapping" ->
                [res |-> "Ok", docs |-> <<[type |-> "Hash", hash |-> st.hash]>>]
          [] st.mode = "scalar" ->
                [res |-> "Ok", docs |-> <<[type |-> "String", hash |-> <<>>]>>]
          [] OTHER -> [res |-> "Err", docs |-> <<>>]

(***************************************************************************)
(* The front-matter splitter of render.  The outcome is the image, the     *)
(* description and the markdown body, or a panic of one of the unwrap()s.  *)
(***************************************************************************)
\* a fallback that hands on the segments without their delimiters
FallbackWithoutDelimiters(contents) ==
    [kind |-> "ok", image |-> None, description |-> None,
     body |-> Concat(StrSplit(contents, <<>>))]

\* ((None, None), contents.to_string())
Fallback(contents) ==
    [kind |-> "ok", image |-> None, description |-> None, body |-> contents]

\* match meta[key].is_badvalue() { true => None, false => Some(meta[key].as_str().unwrap()..) }
MetaField(value) ==
    IF value.type = "BadValue" THEN [panic |-> FALSE, opt |-> None]
    ELSE IF value.type = "String" THEN [panic |-> FALSE, opt |-> Some(value.val)]
    ELSE [panic |-> TRUE, opt |-> None]

SplitFrontMatter(contents) ==
    LET parts == StrSplit(contents, <<>>)
    IN  IF Len(parts) > 1
        THEN LET meta == YamlLoad(parts[2])
             IN  IF meta.res = "Ok"
                 THEN IF meta.docs # <<>>
                      THEN IF meta.docs[1].type # "Hash"
                           THEN Fallback(contents)
                           ELSE LET description == MetaField(meta.docs[1].hash["description"])
                                    image == MetaField(meta.docs[1].hash["image"])
                                IN  IF description.panic \/ image.panic
                                    THEN [kind |-> "panic", image |-> None,
                                          description |-> None, body |-> <<>>]
                                    ELSE [kind |-> "ok", image |-> image.opt,
                                          description |-> description.opt,
                                          body |-> StrJoin(SubSeq(parts, 3, Len(parts)))]
                      ELSE Fallback(contents)
                 ELSE Fallback(contents)
        ELSE Fallback(contents)

(***************************************************************************)
(* Paths.  PathBuf::join replaces the base by an absolute argument, and    *)
(* puts a "/" between a base that does not end in one and the argument.    *)
(***************************************************************************)
Sep == "/"

PathJoin(base, p) ==
    IF p # <<>> /\ Head(p) = Sep THEN p
    ELSE IF base # <<>> /\ Last(base) # Sep THEN base \o <<Sep>> \o p
    ELSE base \o p

\* the components of a path string: the runs of fragments between "/"s
RECURSIVE PathNames(_, _)
PathNames(p, cur) ==
    IF p = <<>> THEN (IF cur = <<>> THEN <<>> ELSE <<cur>>)
    ELSE IF Head(p) = Sep
         THEN (IF cur = <<>> THEN <<>> ELSE <<cur>>) \o PathNames(Tail(p), <<>>)
    ELSE PathNames(Tail(p), Append(cur, Head(p)))

RootDir == <<Sep>>
CurDir == <<".">>
ParentDir == <<"..">>

\* Path::components: RootDir first for an absolute path, then the names; a
\* "." is dropped, except the one a relative path starts with
PathComponents(p) ==
    LET names == PathNames(p, <<>>)
        kept == SelectSeq(names, LAMBDA c : c # CurDir)
    IN  IF p # <<>> /\ Head(p) = Sep THEN <<RootDir>> \o kept
        ELSE IF names # <<>> /\ Head(names) = CurDir THEN <<CurDir>> \o kept
        ELSE kept

\* config::cms_dir()
CmsDir == <<Sep, "cms">>

CollectionNames == {"Blog", "Careers", "Docs"}

\* name.to_lowercase()
ToLowercase(name) ==
    CASE name = "Blog" -> "blog"
      [] name = "Careers" -> "careers"
      [] name = "Docs" -> "docs"

(***************************************************************************)
(* The file system.  A file is the sequence of its path's components from  *)
(* the root, a component the sequence of its fragments.                    *)
(***************************************************************************)
File(dir, name) == Tail(PathComponents(dir)) \o <<name>>

SummaryLineInstall == "* [Install](install.md)\n"
SummaryLineGuides == "* [Guides](guides/README.md)\n"
SummaryUnparseable == "<Summary"

DocsDir == <<Sep, "cms", Sep, "docs">>
CareersDir == <<Sep, "cms", Sep, "careers">>

BaseFiles ==
    (File(DocsDir, <<"SUMMARY", ".md">>) :> <<LineTitle, SummaryLineInstall, SummaryLineGuides>>)
    @@ (File(DocsDir, <<"README", ".md">>) :> <<LineTitle, LineBlank, LineText>>)
    @@ (File(DocsDir, <<"install", ".md">>) :>
            <<Delim, LineBlank, LineDescription, LineImage, Delim, LineBlank, LineTitle, LineText>>)
    @@ (File(DocsDir \o <<Sep, "install">>, <<"README", ".md">>) :> <<LineTitle>>)
    @@ (File(DocsDir, <<"notitle", ".md">>) :> <<LineText>>)
    @@ (File(DocsDir \o <<Sep, ".gitbook", Sep, "assets">>, <<"logo", ".png">>) :> <<"PNG">>)
    @@ (File(CareersDir, <<"README", ".md">>) :> <<LineTitle, LineText>>)
    @@ (File(<<Sep, "etc">>, <<"passwd">>) :> <<"root:x:0:0">>)

CareersSummary == File(CareersDir, <<"SUMMARY", ".md">>)

\* the file systems the process may be started on: the Careers summary is
\* well-formed, absent, or unparseable
Disks ==
    { BaseFiles @@ (CareersSummary :> <<LineTitle, SummaryLineInstall>>),
      BaseFiles,
      BaseFiles @@ (CareersSummary :> <<SummaryUnparseable>>) }

\* the directories of a file system: the proper prefixes of its files
Directories(d) ==
    UNION {{SubSeq(f, 1, n) : n \in 0..(Len(f) - 1)} : f \in DOMAIN d}

\* the working directory of the process, from which a relative path is walked
WorkingDir == <<<<"cms">>>>

\* the kernel's walk along the components of a path: "." stays, ".." steps to
\* the parent, and every step is taken from an existing directory
RECURSIVE Walk(_, _, _)
Walk(d, comps, cur) ==
    IF comps = <<>> THEN [ok |-> TRUE, at |-> cur]
    ELSE IF cur \notin Directories(d) THEN [ok |-> FALSE, at |-> cur]
    ELSE IF Head(comps) = CurDir THEN Walk(d, Tail(comps), cur)
    ELSE IF Head(comps) = ParentDir
         THEN Walk(d, Tail(comps), IF cur = <<>> THEN cur ELSE Front(cur))
    ELSE Walk(d, Tail(comps), Append(cur, Head(comps)))

\* the names the kernel walks for a path string: every name between "/"s, "."
\* included, and a "/" at the end asks for a directory like a "." after it
ResolveNames(p) ==
    LET names == PathNames(p, <<>>)
    IN  IF p # <<>> /\ Last(p) = Sep /\ names # <<>> THEN Append(names, CurDir)
        ELSE names

\* File::open(path), read-only: the file or the directory the path leads to
OpenPath(d, p) ==
    LET w == Walk(d, ResolveNames(p), IF p # <<>> /\ Head(p) = Sep THEN <<>> ELSE WorkingDir)
    IN  IF p # <<>> /\ w.ok /\ w.at \in (DOMAIN d \cup Directories(d))
        THEN Some(w.at) ELSE None

\* read_to_string(path): Ok(contents), or Err when the open fails or what is
\* opened is a directory
ReadToString(d, p) ==
    LET f == OpenPath(d, p)
    IN  IF f = None \/ f[1] \notin DOMAIN d THEN [ok |-> FALSE, contents |-> <<>>]
        ELSE [ok |-> TRUE, contents |-> d[f[1]]]

(***************************************************************************)
(* Collection::new and the lazy_static cells.                              *)
(***************************************************************************)
\* markdown::parse_summary_into_nav_links on the parsed summary: one link per
\* list line, in source order, its href rooted at url
SummaryLink(chunk) ==
    CASE chunk = SummaryLineInstall -> [title |-> "Install", href |-> <<"install", ".md">>]
      [] chunk = SummaryLineGuides ->
            [title |-> "Guides", href |-> <<"guides", Sep, "README", ".md">>]
      [] OTHER -> [title |-> "", href |-> <<>>]

ParseSummary(contents, url) ==
    IF \E i \in 1..Len(contents) : contents[i] = SummaryUnparseable
    THEN [ok |-> FALSE, index |-> <<>>]
    ELSE LET lines == SelectSeq(contents, LAMBDA c : SummaryLink(c).title # "")
         IN  [ok |-> TRUE,
              index |-> [i \in 1..Len(lines) |->
                            [title |-> SummaryLink(lines[i]).title,
                             href |-> PathJoin(url, SummaryLink(lines[i]).href)]]]

NoCollection == [name |-> "", asset_dir |-> <<>>, index |-> <<>>]

\* Collection::new(name): the collection, or a panic of one of its expect()s
CollectionNew(d, name) ==
    LET root_dir == <<ToLowercase(name)>>
        index_path == PathJoin(PathJoin(CmsDir, root_dir), <<"SUMMARY", ".md">>)
        contents == ReadToString(d, index_path)
        url == PathJoin(<<Sep>>, <<ToLowercase(name)>>)
        index == ParseSummary(contents.contents, url)
    IN  IF ~contents.ok \/ ~index.ok
        THEN [panic |-> TRUE, value |-> NoCollection]
        ELSE [panic |-> FALSE,
              value |-> [name |-> name,
                         asset_dir |-> PathJoin(PathJoin(PathJoin(CmsDir, root_dir),
                                                         <<".gitbook">>), <<"assets">>),
                         index |-> index.index]]

\* dereferencing a lazy_static cell: the first access runs Collection::new
\* under a Once; a panic in it poisons the Once, and every later access panics
LazyDeref(d, cell, name) ==
    IF cell.state = "uninit"
    THEN LET new == CollectionNew(d, name)
         IN  [panic |-> new.panic, ran |-> TRUE,
              cell |-> [state |-> IF new.panic THEN "poisoned" ELSE "ready",
                        value |-> new.value]]
    ELSE [panic |-> cell.state = "poisoned", ran |-> FALSE, cell |-> cell]

(***************************************************************************)
(* The parsed document and the passes of render over it.                   *)
(***************************************************************************)
\* a blank line, an ATX heading, a line of '-' only (a setext underline or a
\* thematic break), or text
MarkdownLineKind(line) ==
    LET dashes == IF Last(line) = LineBlank THEN Front(line) ELSE line
    IN  IF line = <<LineBlank>> THEN "blank"
        ELSE IF line = <<LineTitle>> THEN "atx"
        ELSE IF \A i \in 1..Len(dashes) : dashes[i] = Delim THEN "rule"
        ELSE "text"

Node(kind, level, text) == [kind |-> kind, level |-> level, text |-> text]

ClosePara(nodes, para) ==
    IF para = <<>> THEN nodes ELSE Append(nodes, Node("paragraph", 0, para))

\* the top-level blocks of the lines: text lines run on into one paragraph,
\* and a '-' line under a paragraph makes it a level-2 heading
RECURSIVE Blocks(_, _, _)
Blocks(lines, para, nodes) ==
    IF lines = <<>> THEN ClosePara(nodes, para)
    ELSE LET kind == MarkdownLineKind(Head(lines))
         IN  CASE kind = "text" -> Blocks(Tail(lines), para \o Head(lines), nodes)
               [] kind = "blank" -> Blocks(Tail(lines), <<>>, ClosePara(nodes, para))
               [] kind = "atx" ->
                     Blocks(Tail(lines), <<>>,
                            Append(ClosePara(nodes, para), Node("heading", 1, Head(lines))))
               [] kind = "rule" ->
                     Blocks(Tail(lines), <<>>,
                            IF para = <<>>
                            THEN Append(nodes, Node("thematic_break", 0, <<>>))
                            ELSE Append(nodes, Node("heading", 2, para)))

\* parse_document(&arena, &contents, ..): the top-level blocks in order
ParseDocument(body) ==
    [nodes |-> Blocks(TextLines(body, <<>>), <<>>, <<>>),
     tables_wrapped |-> FALSE,
     directives_expanded |-> FALSE]

Headings(tree) == SelectSeq(tree.nodes, LAMBDA n : n.kind = "heading")

\* markdown::get_title(&root): the first top-level heading, or MissingTitle
GetTitle(tree) ==
    IF Headings(tree) # <<>>
    THEN [ok |-> TRUE, title |-> Headings(tree)[1].text]
    ELSE [ok |-> FALSE, title |-> <<>>]

\* markdown::get_toc(&root): one link per heading, in document order
GetToc(tree) ==
    [i \in 1..Len(Headings(tree)) |->
        [text |-> Headings(tree)[i].text, level |-> Headings(tree)[i].level]]

\* markdown::wrap_tables(&root, &arena)
WrapTables(tree) == [tree EXCEPT !.tables_wrapped = TRUE]

\* markdown::mkdocs(&root, &arena)
Mkdocs(tree) == [tree EXCEPT !.directives_expanded = TRUE]

\* the state render carries from pass to pass
RenderState(body) ==
    [body |-> body,
     tree |-> ParseDocument(<<>>),
     title |-> None,
     toc_links |-> <<>>,
     extracted_from |-> None,   \* the tree the title and TOC were read from
     html |-> None,
     panic |-> FALSE,
     stages |-> <<"split">>]

ApplyStage(stage, st) ==
    LET done == [st EXCEPT !.stages = Append(@, stage)]
    IN  CASE stage = "parse" -> [done EXCEPT !.tree = ParseDocument(st.body)]
          [] stage = "get_title" ->
                IF GetTitle(st.tree).ok
                THEN [done EXCEPT !.title = Some(GetTitle(st.tree).title),
                                  !.extracted_from = Some(st.tree)]
                ELSE [done EXCEPT !.panic = TRUE]
          [] stage = "get_toc" -> [done EXCEPT !.toc_links = GetToc(st.tree)]
          [] stage = "wrap_tables" -> [done EXCEPT !.tree = WrapTables(st.tree)]
          [] stage = "mkdocs" -> [done EXCEPT !.tree = Mkdocs(st.tree)]
          [] stage = "format_html" -> [done EXCEPT !.html = Some(st.tree)]

\* the passes run in order; an unwrap() that panics ends the run
RECURSIVE RunStages(_, _)
RunStages(stages, st) ==
    IF stages = <<>> \/ st.panic THEN st
    ELSE RunStages(Tail(stages), ApplyStage(Head(stages), st))

\* a faulty variant: the title and the TOC are read after the transforms
RenderStagesExtractLast ==
    <<"parse", "wrap_tables", "mkdocs", "get_title", "get_toc", "format_html">>

\* the order of the passes in render
RenderStages ==
    <<"parse", "get_title", "get_toc", "wrap_tables", "mkdocs", "format_html">>

(***************************************************************************)
(* get_content, render and get_asset.                                      *)
(***************************************************************************)
\* the request guard's context, handed through to the layout
Cluster(anonymous) ==
    [is_anonymous |-> anonymous, user |-> "user", marketing_footer |-> "footer"]

\* get_content: Rocket strips the trailing '/' of the URL from path
GetContentPath(path, slash) ==
    IF slash THEN PathJoin(path, <<Sep>>) ELSE path

\* render: the file of a request path
RenderFile(collection, path) ==
    LET named == IF path = <<>> \/ Last(path) = Sep
                 THEN path \o <<"README">> ELSE path
    IN  PathJoin(PathJoin(CmsDir, <<ToLowercase(collection.name)>>),
                 named \o <<".md">>)

Outcome(result, st) ==
    [result |-> result, stages |-> st.stages, extracted_from |-> st.extracted_from,
     layout |-> None, handle |-> None]

Panicked == Outcome("Panic", [stages |-> <<>>, extracted_from |-> None])

\* a faulty variant: the layout gets no navigation links
NavLinksNone(collection) == <<>>

\* let index = self.index.clone();
NavLinks(collection) == collection.index

\* render from the front-matter split on: the page handed to the layout, or
\* a panic of an unwrap()
RenderContents(collection, cluster, contents) ==
    LET split == SplitFrontMatter(contents)
        st == RunStages(RenderStages, RenderState(split.body))
    IN  IF split.kind = "panic"
        THEN Outcome("Panic", [stages |-> <<"split">>, extracted_from |-> None])
        ELSE IF st.panic THEN Outcome("Panic", st)
        ELSE [Outcome("Ok", st) EXCEPT
                !.layout = Some([title |-> st.title[1],
                                 image |-> split.image,
                                 description |-> split.description,
                                 user |-> IF cluster.is_anonymous THEN None
                                          ELSE Some(cluster.user),
                                 nav_title |-> collection.name,
                                 nav_links |-> NavLinks(collection),
                                 toc_links |-> st.toc_links,
                                 footer |-> cluster.marketing_footer,
                                 content |-> st.html[1]])]

\* a faulty variant: a failed read is taken for an empty file
RenderAfterReadOrDefault(collection, cluster, read) ==
    RenderContents(collection, cluster, read.contents)

\* render from the completion of read_to_string on
RenderAfterRead(collection, cluster, read) ==
    IF ~read.ok
    THEN Outcome("NotFound", [stages |-> <<>>, extracted_from |-> None])
    ELSE RenderContents(collection, cluster, read.contents)

\* NamedFile::open(self.asset_dir.join(path)).await.ok()
AssetFile(collection, path) == PathJoin(collection.asset_dir, path)

AssetOutcome(d, file) ==
    LET f == OpenPath(d, file)
    IN  [Outcome(IF f = None THEN "None" ELSE "Some",
                 [stages |-> <<>>, extracted_from |-> None])
         EXCEPT !.handle = f]

(***************************************************************************)
(* The requests.                                                           *)
(***************************************************************************)
ContentPaths == {<<>>, <<"install">>, <<"notitle">>}

AssetPaths ==
    { <<"logo", ".png">>,
      <<"logo", ".png", Sep>>,
      <<"..">>,
      <<Sep, "etc", Sep, "passwd">>,
      <<"..", Sep, "..", Sep, "SUMMARY", ".md">> }

Request(route, name, path, slash, anonymous, file) ==
    [route |-> route, coll |-> name, path |-> path, slash |-> slash,
     anonymous |-> anonymous, file |-> file, reads |-> 0]

\* the first access of a request to its collection
Touch(name) ==
    LET d == LazyDeref(disk, lazy[name], name)
    IN  /\ lazy' = [lazy EXCEPT ![name] = d.cell]
        /\ built' = IF d.ran
                    THEN [built EXCEPT ![name] =
                             [count |-> @.count + 1, during |-> "request"]]
                    ELSE built

\* get_careers / get_docs up to the .await of the file read
GetContent(name, path, slash, anonymous) ==
    /\ Cardinality(inflight) < MaxInFlight
    /\ Touch(name)
    /\ IF lazy'[name].state = "ready"
       THEN /\ inflight' = inflight \cup
                   {Request("content", name, path, slash, anonymous,
                            RenderFile(lazy'[name].value, GetContentPath(path, slash)))}
            /\ UNCHANGED response
       ELSE /\ response' = Some([req |-> Request("content", name, path, slash, anonymous, <<>>),
                                 out |-> Panicked])
            /\ UNCHANGED inflight
    /\ UNCHANGED <<disk, fm>>

\* the file read of line 112 is made, once, and render runs to its end
ReadComplete(r) ==
    /\ r \in inflight
    /\ r.route = "content"
    /\ inflight' = inflight \ {r}
    /\ response' = Some([req |-> [r EXCEPT !.reads = @ + 1],
                         out |-> RenderAfterRead(lazy[r.coll].value,
                                                 Cluster(r.anonymous),
                                                 ReadToString(disk, r.file))])
    /\ UNCHANGED <<disk, lazy, built, fm>>

\* get_careers_asset / get_docs_asset up to the .await of the open
GetAsset(name, path) ==
    /\ Cardinality(inflight) < MaxInFlight
    /\ Touch(name)
    /\ IF lazy'[name].state = "ready"
       THEN /\ inflight' = inflight \cup
                   {Request("asset", name, path, FALSE, TRUE,
                            AssetFile(lazy'[name].value, path))}
            /\ UNCHANGED response
       ELSE /\ response' = Some([req |-> Request("asset", name, path, FALSE, TRUE, <<>>),
                                 out |-> Panicked])
            /\ UNCHANGED inflight
    /\ UNCHANGED <<disk, fm>>

OpenComplete(r) ==
    /\ r \in inflight
    /\ r.route = "asset"
    /\ inflight' = inflight \ {r}
    /\ response' = Some([req |-> [r EXCEPT !.reads = @ + 1],
                         out |-> AssetOutcome(disk, r.file)])
    /\ UNCHANGED <<disk, lazy, built, fm>>

\* get_blog: todo!()
GetBlog(path, anonymous) ==
    /\ response' = Some([req |-> Request("blog", "Blog", path, FALSE, anonymous, <<>>),
                         out |-> Panicked])
    /\ UNCHANGED <<disk, lazy, built, inflight, fm>>

\* the process has started and mounted routes(); no request has arrived
Init ==
    /\ disk \in Disks
    /\ lazy = [c \in CollectionNames |-> [state |-> "uninit", value |-> NoCollection]]
    /\ built = [c \in CollectionNames |-> [count |-> 0, during |-> "never"]]
    /\ inflight = {}
    /\ response = None
    /\ fm = [contents |-> <<>>, phase |-> "idle", out |-> Fallback(<<>>), page |-> None]

Next ==
    \/ \E name \in {"Careers", "Docs"}, path \in ContentPaths,
          slash \in BOOLEAN, anonymous \in BOOLEAN :
          GetContent(name, path, slash, anonymous)
    \/ \E r \in inflight : ReadComplete(r)
    \/ \E name \in {"Careers", "Docs"}, path \in AssetPaths : GetAsset(name, path)
    \/ \E r \in inflight : OpenComplete(r)
    \/ \E path \in ContentPaths, anonymous \in BOOLEAN : GetBlog(path, anonymous)

Spec == Init /\ [][Next]_vars

(***************************************************************************)
(* File contents handed to the splitter: every text of at most MaxLen      *)
(* chunks over the alphabet, and the documented example text.              *)
(***************************************************************************)
Alphabet ==
    {Delim, LineText, LineDescription, LineImage, LineDescriptionInt, LineYamlError,
     LineTitle, LineBlank, InlineDescriptionA}

ExampleContent ==
    <<LineTitle, LineBlank, InlineSomeText, Delim, InlineWithADash, Delim, InlineInIt>>

Contents ==
    UNION {[1..n -> Alphabet] : n \in 0..MaxLen} \cup {ExampleContent}

FMInit ==
    /\ fm \in {[contents |-> c, phase |-> "read", out |-> Fallback(<<>>), page |-> None] :
                  c \in Contents}
    /\ disk = <<>>
    /\ lazy = <<>>
    /\ built = <<>>
    /\ inflight = {}
    /\ response = <<>>

\* render, lines 122-151, on the contents just read
FMSplit ==
    /\ fm.phase = "read"
    /\ fm' = [fm EXCEPT !.phase = "split", !.out = SplitFrontMatter(fm.contents)]
    /\ UNCHANGED <<disk, lazy, built, inflight, response>>

\* render, lines 122-208, on the contents just read, for a Docs page
FMRender ==
    /\ fm.phase = "split"
    /\ fm' = [fm EXCEPT !.phase = "rendered",
                        !.page = Some(RenderContents(CollectionNew(BaseFiles, "Docs").value,
                                                     Cluster(TRUE), fm.contents))]
    /\ UNCHANGED <<disk, lazy, built, inflight, response>>

FMNext == FMSplit \/ FMRender

SpecFM == FMInit /\ [][FMNext]_vars


(***************************************************************************)
(* Claims about the front-matter splitter, checked under SpecFM.           *)
(***************************************************************************)
FMParts == StrSplit(fm.contents, <<>>)

\* the contents take the fallback: fewer than 2 segments, or segment 2 fails
\* to parse, parses to no document, or parses to a value that is no mapping
FMFallbackCase ==
    \/ Len(FMParts) < 2
    \/ YamlLoad(FMParts[2]).res = "Err"
    \/ YamlLoad(FMParts[2]).docs = <<>>
    \/ YamlLoad(FMParts[2]).docs[1].type # "Hash"

\* C2: in the fallback case the splitter yields image = None, description =
\* None and a body equal to the original contents, delimiters included, and
\* does not fail; the text "# Title\n\nSome text --- with a dash --- in it"
\* takes the fallback.
C2_FallbackKeepsContents ==
    /\ (fm.phase # "read" /\ FMFallbackCase) =>
          /\ fm.out.kind = "ok"
          /\ fm.out.image = None
          /\ fm.out.description = None
          /\ fm.out.body = fm.contents
    /\ (fm.phase # "read" /\ fm.contents = ExampleContent) =>
          /\ FMFallbackCase
          /\ fm.out = [kind |-> "ok", image |-> None, description |-> None,
                       body |-> ExampleContent]

C2_Witness ==
    /\ fm.phase = "split"
    /\ fm.contents = ExampleContent
    /\ Len(FMParts) = 3
    /\ YamlLoad(FMParts[2]).docs[1].type = "String"
    /\ fm.out.body = ExampleContent

\* segment 2 parses to a mapping
FMMappingCase ==
    /\ Len(FMParts) > 1
    /\ YamlLoad(FMParts[2]).res = "Ok"
    /\ YamlLoad(FMParts[2]).docs # <<>>
    /\ YamlLoad(FMParts[2]).docs[1].type = "Hash"

FMKeyValue(key) == YamlLoad(FMParts[2]).docs[1].hash[key]

\* C3: whenever segment 2 parses to a mapping the splitter returns, without
\* failing, description and image equal to the values of those keys, None for
\* a key that is absent.
C3_MappingNeverFails ==
    (fm.phase # "read" /\ FMMappingCase) =>
        /\ fm.out.kind = "ok"
        /\ fm.out.description =
              IF FMKeyValue("description").type = "BadValue" THEN None
              ELSE Some(FMKeyValue("description").val)
        /\ fm.out.image =
              IF FMKeyValue("image").type = "BadValue" THEN None
              ELSE Some(FMKeyValue("image").val)

\* a valid description/image block: blank lines and "key: value" lines with
\* string values, among them the line "description: a ---Some text\n"
RECURSIVE FMValidBlock(_)
FMValidBlock(block) ==
    IF block = <<>> THEN TRUE
    ELSE IF Head(block) \in {LineBlank, LineDescription, LineImage}
         THEN FMValidBlock(Tail(block))
    ELSE /\ Len(block) >= 3
         /\ SubSeq(block, 1, 3) = <<InlineDescriptionA, Delim, LineText>>
         /\ FMValidBlock(SubSeq(block, 4, Len(block)))

\* the places of the "---" that closes a valid block opened by a "---" at the
\* start of the contents; a "---" inside the block is part of a value, so
\* there is at most one such place
FMBlockEnd ==
    {k \in 3..Len(fm.contents) :
        /\ fm.contents[1] = Delim
        /\ fm.contents[k] = Delim
        /\ FMValidBlock(SubSeq(fm.contents, 2, k - 1))
        /\ \E i \in 2..(k - 1) : fm.contents[i] # LineBlank}

\* the contents are "---", a valid description/image block, "---", and a body
FMValidFrontMatter == FMBlockEnd # {}

FMOriginalBody ==
    SubSeq(fm.contents, (CHOOSE k \in FMBlockEnd : TRUE) + 1, Len(fm.contents))

\* C4: for contents made of a valid description/image block between two "---"
\* and a body, which may hold further "---", the body the splitter returns is
\* the original body exactly.
C4_BodyRoundTrip ==
    (fm.phase # "read" /\ FMValidFrontMatter) =>
        /\ fm.out.kind = "ok"
        /\ fm.out.body = FMOriginalBody

(***************************************************************************)
(* Claims about the requests, checked under Spec.                          *)
(***************************************************************************)
Responded == response # None
Req == response[1].req
Out == response[1].out

\* the content requests past their first access to the collection
ContentRequests ==
    {r \in inflight : r.route = "content"}
        \cup (IF Responded /\ Req.route = "content" /\ Req.file # <<>> THEN {Req} ELSE {})

\* the file the specification names for a request path:
\* <root>/<name-lowercased>/README.md for the empty path,
\* <root>/<name-lowercased>/<p>/README.md for a URL ending in '/',
\* <root>/<name-lowercased>/<p>.md otherwise
SpecifiedFile(name, path, slash) ==
    LET dir == PathComponents(CmsDir) \o <<<<ToLowercase(name)>>>>
        p == PathComponents(path)
    IN  IF p = <<>> THEN dir \o <<<<"README", ".md">>>>
        ELSE IF slash THEN dir \o p \o <<<<"README", ".md">>>>
        ELSE dir \o Front(p) \o <<Last(p) \o <<".md">>>>

\* C1: get_content maps the empty path to <root>/<name>/README.md, a path
\* whose URL ends with '/' to <root>/<name>/<p>/README.md, and any other path
\* to <root>/<name>/<p>.md.
C1_PathMapping ==
    \A r \in ContentRequests :
        PathComponents(r.file) = SpecifiedFile(r.coll, r.path, r.slash)

\* the body of the file a content request read has no top-level heading
BodyWithoutTitle(r) ==
    LET read == ReadToString(disk, r.file)
        split == SplitFrontMatter(read.contents)
    IN  /\ read.ok
        /\ split.kind = "ok"
        /\ ~GetTitle(ParseDocument(split.body)).ok

\* C5: a readable content file whose body has no top-level heading ends the
\* request with the MissingTitle error result, never with a page, and the
\* collection stays in service.
C5_MissingTitleIsAnErrorResult ==
    (Responded /\ Req.route = "content" /\ Req.file # <<>> /\ BodyWithoutTitle(Req)) =>
        /\ Out.result = "MissingTitle"
        /\ Out.layout = None
        /\ lazy[Req.coll].state = "ready"

\* C6: when the read of the resolved content file fails, get_content returns
\* NotFound, having read once, and runs no splitting, parsing or rendering;
\* the collection is left as it was.
C6_ReadFailureIsNotFound ==
    (Responded /\ Req.route = "content" /\ Req.file # <<>>
        /\ ~ReadToString(disk, Req.file).ok) =>
        /\ Out.result = "NotFound"
        /\ Req.reads = 1
        /\ Out.stages = <<>>
        /\ Out.layout = None
        /\ lazy[Req.coll] = [state |-> "ready", value |-> CollectionNew(disk, Req.coll).value]

C6_Witness ==
    /\ Responded
    /\ Req.route = "content"
    /\ Req.coll = "Careers"
    /\ Req.path = <<"install">>
    /\ ~Req.slash
    /\ ~ReadToString(disk, Req.file).ok
    /\ Out.result = "NotFound"

\* a request to one of the routes of collection c has been received
RequestSeen(c) ==
    \/ \E r \in inflight : r.coll = c
    \/ Responded /\ Req.coll = c

\* C7: every known collection is constructed during startup, before any
\* request to its routes is handled, and a missing or unparseable summary
\* fails at startup, never while a request is handled.
C7_EagerFailFast ==
    \A c \in CollectionNames :
        /\ built[c].during # "request"
        /\ RequestSeen(c) => lazy[c].state = "ready"

\* the canonical asset directory of a collection
SpecifiedAssetDir(name) ==
    Tail(PathComponents(CmsDir)) \o <<<<ToLowercase(name)>>, <<".gitbook">>, <<"assets">>>>

\* C8: the file get_asset opens lies inside <root>/<name>/.gitbook/assets; a
\* path that leads outside it, or to no file, yields None.
C8_AssetConfinement ==
    (Responded /\ Req.route = "asset" /\ Out.handle # None) =>
        LET f == Out.handle[1]
            dir == SpecifiedAssetDir(Req.coll)
        IN  /\ Len(f) > Len(dir)
            /\ SubSeq(f, 1, Len(dir)) = dir

\* what a request yields when it is the only one the process ever handles
SoloOutcome(r) ==
    LET d == LazyDeref(disk, [state |-> "uninit", value |-> NoCollection], r.coll)
    IN  IF r.route = "blog" \/ d.panic THEN Panicked
        ELSE IF r.route = "asset"
             THEN AssetOutcome(disk, AssetFile(d.cell.value, r.path))
        ELSE RenderAfterRead(d.cell.value, Cluster(r.anonymous),
                             ReadToString(disk, RenderFile(d.cell.value,
                                                           GetContentPath(r.path, r.slash))))

C9_State ==
    /\ \A c \in CollectionNames :
          /\ built[c].count <= 1
          /\ lazy[c].state = "ready" => lazy[c].value = CollectionNew(disk, c).value
    /\ (Responded /\ Out.result = "Ok") =>
          /\ Out.layout[1].nav_links = lazy[Req.coll].value.index
          /\ Out.layout[1].nav_links = CollectionNew(disk, Req.coll).value.index
    /\ Responded => Out = SoloOutcome(Req)

C9_Step ==
    \A c \in CollectionNames : lazy[c].state # "uninit" => lazy'[c] = lazy[c]

\* C9: under any interleaving of get_content and get_asset requests a
\* collection is constructed at most once and no request changes its name,
\* asset directory or index afterwards; every successful get_content hands
\* the layout an index equal to the collection's, and no request's result
\* depends on the other requests.
C9_SharedReadOnly == [](C9_State) /\ [][C9_Step]_vars

C9_Witness ==
    /\ Cardinality(inflight) = 2
    /\ \A r \in inflight : r.coll = "Docs"
    /\ \E r \in inflight : r.route = "content"
    /\ \E r \in inflight : r.route = "asset"
    /\ built["Docs"].count = 1
    /\ Responded
    /\ Req.coll = "Docs"
    /\ Out.result = "Ok"
    /\ Len(Out.layout[1].nav_links) = 2

\* the place of a pass in the passes a request ran; 0 if it did not run
Position(stages, stage) ==
    IF \E i \in 1..Len(stages) : stages[i] = stage
    THEN CHOOSE i \in 1..Len(stages) : stages[i] = stage
    ELSE 0

\* the passes other than the title/TOC extraction ran in the order split,
\* parse, table wrapping, directive expansion, HTML rendering
TransformOrder(stages) ==
    /\ 0 < Position(stages, "split")
    /\ Position(stages, "split") < Position(stages, "parse")
    /\ Position(stages, "parse") < Position(stages, "wrap_tables")
    /\ Position(stages, "wrap_tables") < Position(stages, "mkdocs")
    /\ Position(stages, "mkdocs") < Position(stages, "format_html")

\* C10: in a successful get_content the split precedes the parse, the passes
\* run in the order parse, table wrapping, directive expansion, rendering, and
\* the title and TOC are extracted after table wrapping and directive
\* expansion, from the transformed tree.
C10_ExtractAfterTransforms ==
    (Responded /\ Out.result = "Ok") =>
        /\ TransformOrder(Out.stages)
        /\ Position(Out.stages, "mkdocs") < Position(Out.stages, "get_title")
        /\ Position(Out.stages, "mkdocs") < Position(Out.stages, "get_toc")
        /\ Out.extracted_from[1].tables_wrapped
        /\ Out.extracted_from[1].directives_expanded

\* C10 as amended: the title and TOC are extracted right after the parse,
\* before table wrapping and directive expansion, from the untransformed tree.
C10_ExtractBeforeTransforms ==
    (Responded /\ Out.result = "Ok") =>
        /\ TransformOrder(Out.stages)
        /\ Position(Out.stages, "parse") < Position(Out.stages, "get_title")
        /\ Position(Out.stages, "get_title") < Position(Out.stages, "get_toc")
        /\ Position(Out.stages, "get_toc") < Position(Out.stages, "wrap_tables")
        /\ ~Out.extracted_from[1].tables_wrapped
        /\ ~Out.extracted_from[1].directives_expanded
        /\ Out.layout[1].content.tables_wrapped
        /\ Out.layout[1].content.directives_expanded

C10_Witness ==
    /\ Responded
    /\ Req.coll = "Docs"
    /\ Req.path = <<"install">>
    /\ ~Req.slash
    /\ Out.result = "Ok"
    /\ Out.layout[1].description = Some("d")
    /\ Out.stages = <<"split", "parse", "get_title", "get_toc",
                      "wrap_tables", "mkdocs", "format_html">>

=============================================================================
